---- MODULE Spec2Model ----
(***************************************************************************)
(* Model of network-p2p/types/src/lib.rs (starcoin): the request/response  *)
(* exchange envelope (IncomingRequest, OutgoingResponse and the oneshot    *)
(* pending_response handle), the IfDisconnected connection policy, the     *)
(* memory-address helpers and the failure enumerations.                    *)
(*                                                                         *)
(* Four specifications share the module, one per component:                *)
(*   SpecExchange  the deferred-response handle of each IncomingRequest    *)
(*   SpecSend      an outbound send consulting IfDisconnected              *)
(*   SpecAddr      memory_addr / random_memory_addr / is_memory_addr       *)
(*   SpecErr       ParseErr, RequestFailure, ResponseFailure               *)
(***************************************************************************)
EXTENDS Integers, Sequences, FiniteSets, TLC

VARIABLES
    \* ---- exchange envelope ----
    reqs,        \* reqs[i]: <<>> or <<IncomingRequest>> (peer, payload)
    chan,        \* chan[i]: the oneshot channel behind pending_response
    sent,        \* sent[i]: history of the handler's send calls on handle i
    observed,    \* observed[i]: what the consumer's await of receiver i yielded
    applied,     \* applied[i]: the consumer has processed its observation
    reputation,  \* reputation[p]: sum of the deltas the consumer applied to p
    \* ---- connection policy ----
    connected,   \* peers with a live connection
    dials,       \* dials[p]: connection attempts made to p
    lastSend,    \* <<>> or <<record of the last outbound send>>
    seen,        \* seen[policy]: results should_connect returned for policy
    \* ---- address helpers ----
    addr,        \* the Multiaddr under inspection: a sequence of Protocol segments
    origin,      \* which constructor produced addr
    isMem,       \* <<>> or <<result of is_memory_addr(addr)>>
    \* ---- failure enumerations ----
    val,         \* <<>> or <<the error value under inspection>>
    prev,        \* <<>> or <<the error value inspected before it>>
    srcRes,      \* <<>> or <<result of val.source()>>
    dispRes      \* <<>> or <<result of val's Display>>

exchangeVars == <<reqs, chan, sent, observed, applied, reputation>>
sendVars == <<connected, dials, lastSend, seen>>
addrVars == <<addr, origin, isMem>>
errVars == <<val, prev, srcRes, dispRes>>
vars == <<reqs, chan, sent, observed, applied, reputation,
          connected, dials, lastSend, seen,
          addr, origin, isMem,
          val, prev, srcRes, dispRes>>

\* Option<T> is a sequence of length at most one.
None == <<>>
Some(x) == <<x>>

(***************************************************************************)
(* Bounds                                                                  *)
(***************************************************************************)
NumRequests == 2
Req == 1..NumRequests
Peers == {"peerA", "peerB"}

(***************************************************************************)
(* Exchange envelope                                                       *)
(***************************************************************************)
\* Vec<u8> payloads: b"ping" (request) and b"pong" (response).
Ping == <<112, 105, 110, 103>>
Pong == <<112, 111, 110, 103>>
Payloads == {Ping}

\* Result<Vec<u8>, ()>
OkResult(bytes) == [tag |-> "Ok", bytes |-> bytes]
ErrResult == [tag |-> "Err", bytes |-> <<>>]
Results == {OkResult(Pong), ErrResult}

\* Vec<ReputationChange>: each change carries a signed value.
ReputationLists == {<<>>, <<-10, 5>>}

OutgoingResponse == [result : Results, reputation_changes : ReputationLists]

IncomingRequest(peer, payload) == [peer |-> peer, payload |-> payload]

\* oneshot::channel(): the Sender is held by the IncomingRequest, the Receiver
\* by the consumer; the slot is empty.
oneshot_channel == [tx |-> "held", rx |-> "waiting", slot |-> None]
NoChannel == [tx |-> "none", rx |-> "none", slot |-> None]

\* A send that leaves the Sender usable afterwards (a multi-shot sender).
oneshot_send_reusable(ch, t) ==
    IF ch.rx # "waiting"
    THEN [ch |-> ch, ret |-> [tag |-> "Err", val |-> Some(t)]]
    ELSE [ch |-> [ch EXCEPT !.slot = Some(t)], ret |-> [tag |-> "Ok", val |-> None]]

\* A send that stores the result only and loses the reputation changes.
oneshot_send_lossy(ch, t) ==
    IF ch.rx # "waiting"
    THEN [ch |-> [ch EXCEPT !.tx = "sent"], ret |-> [tag |-> "Err", val |-> Some(t)]]
    ELSE [ch |-> [ch EXCEPT !.tx = "sent",
                            !.slot = Some([t EXCEPT !.reputation_changes = <<>>])],
          ret |-> [tag |-> "Ok", val |-> None]]

\* A send whose caller cannot tell a lost response from a delivered one.
oneshot_send_silent(ch, t) ==
    IF ch.rx # "waiting"
    THEN [ch |-> [ch EXCEPT !.tx = "sent"], ret |-> [tag |-> "Ok", val |-> None]]
    ELSE [ch |-> [ch EXCEPT !.tx = "sent", !.slot = Some(t)],
          ret |-> [tag |-> "Ok", val |-> None]]

\* oneshot::Sender::send(self, t) -> Result<(), T>: consumes the Sender; when the
\* Receiver is gone the value comes back as Err(t), otherwise it is stored in
\* the slot and Ok(()) is returned.
oneshot_send(ch, t) ==
    IF ch.rx # "waiting"
    THEN [ch |-> [ch EXCEPT !.tx = "sent"], ret |-> [tag |-> "Err", val |-> Some(t)]]
    ELSE [ch |-> [ch EXCEPT !.tx = "sent", !.slot = Some(t)],
          ret |-> [tag |-> "Ok", val |-> None]]

\* Dropping the Sender answers with an error response carrying a penalty.
oneshot_drop_sender_penalising(ch) ==
    [ch EXCEPT !.tx = "dropped",
               !.slot = Some([result |-> ErrResult, reputation_changes |-> <<-10>>])]

\* Drop of the Sender without a send: the channel completes with an empty slot.
oneshot_drop_sender(ch) == [ch EXCEPT !.tx = "dropped"]

\* Poll of the Receiver: the stored value if there is one, Canceled once the
\* Sender is gone without one, Pending while the Sender is still held.
oneshot_recv(ch) ==
    IF ch.slot # None THEN [kind |-> "Delivered", resp |-> ch.slot]
    ELSE IF ch.tx # "held" THEN [kind |-> "Canceled", resp |-> None]
    ELSE [kind |-> "Pending", resp |-> None]

RECURSIVE SumSeq(_)
SumSeq(s) == IF s = <<>> THEN 0 ELSE Head(s) + SumSeq(Tail(s))

InitExchange ==
    /\ reqs = [i \in Req |-> None]
    /\ chan = [i \in Req |-> NoChannel]
    /\ sent = [i \in Req |-> <<>>]
    /\ observed = [i \in Req |-> <<>>]
    /\ applied = [i \in Req |-> FALSE]
    /\ reputation = [p \in Peers |-> 0]

\* The transport builds an IncomingRequest around a fresh oneshot channel.
NewIncomingRequest(i, peer, payload) ==
    /\ reqs[i] = None
    /\ reqs' = [reqs EXCEPT ![i] = Some(IncomingRequest(peer, payload))]
    /\ chan' = [chan EXCEPT ![i] = oneshot_channel]
    /\ UNCHANGED <<sent, observed, applied, reputation>>

\* The handler delivers resp through pending_response.
SendResponse(i, resp) ==
    /\ chan[i].tx = "held"
    /\ LET r == oneshot_send(chan[i], resp) IN
        /\ chan' = [chan EXCEPT ![i] = r.ch]
        /\ sent' = [sent EXCEPT ![i] =
              Append(@, [resp |-> resp, rxGone |-> chan[i].rx # "waiting", ret |-> r.ret])]
    /\ UNCHANGED <<reqs, observed, applied, reputation>>

\* The handler drops pending_response without sending.
DropPendingResponse(i) ==
    /\ chan[i].tx = "held"
    /\ chan' = [chan EXCEPT ![i] = oneshot_drop_sender(@)]
    /\ UNCHANGED <<reqs, sent, observed, applied, reputation>>

\* The consumer's await of the Receiver resolves; the Receiver is consumed.
AwaitResponse(i) ==
    /\ chan[i].rx = "waiting"
    /\ oneshot_recv(chan[i]).kind # "Pending"
    /\ observed' = [observed EXCEPT ![i] = Append(@, oneshot_recv(chan[i]))]
    /\ chan' = [chan EXCEPT ![i].rx = "resolved", ![i].slot = None]
    /\ UNCHANGED <<reqs, sent, applied, reputation>>

\* The consumer gives up on the exchange: the Receiver goes away.
DropReceiver(i) ==
    /\ chan[i].rx = "waiting"
    /\ chan' = [chan EXCEPT ![i].rx = "dropped"]
    /\ UNCHANGED <<reqs, sent, observed, applied, reputation>>

\* The consumer acts on what it observed: the reputation changes of a
\* delivered response are applied to the requesting peer, a cancelled
\* exchange is ignored.
ApplyOutcome(i) ==
    /\ observed[i] # <<>>
    /\ ~applied[i]
    /\ applied' = [applied EXCEPT ![i] = TRUE]
    /\ LET o == observed[i][1]
           p == reqs[i][1].peer IN
        reputation' = IF o.kind = "Delivered"
                      THEN [reputation EXCEPT ![p] = @ + SumSeq(o.resp[1].reputation_changes)]
                      ELSE reputation
    /\ UNCHANGED <<reqs, chan, sent, observed>>

ExchangeFrame == UNCHANGED <<sendVars, addrVars, errVars>>

NextExchange ==
    \/ \E i \in Req, p \in Peers, b \in Payloads : NewIncomingRequest(i, p, b) /\ ExchangeFrame
    \/ \E i \in Req, r \in OutgoingResponse : SendResponse(i, r) /\ ExchangeFrame
    \/ \E i \in Req : DropPendingResponse(i) /\ ExchangeFrame
    \/ \E i \in Req : AwaitResponse(i) /\ ExchangeFrame
    \/ \E i \in Req : DropReceiver(i) /\ ExchangeFrame
    \/ \E i \in Req : ApplyOutcome(i) /\ ExchangeFrame


(***************************************************************************)
(* Claims on the exchange envelope (checked under SpecExchange)            *)
(***************************************************************************)
Delivered(i) == observed[i] # <<>> /\ observed[i][1].kind = "Delivered"
Canceled(i) == observed[i] # <<>> /\ observed[i][1].kind = "Canceled"

\* C1: on every request the handle carries at most one OutgoingResponse, the
\* consumer observes at most one outcome, and a resolved await ended in
\* exactly one of "delivered" (the sender sent) or "canceled" (the sender was
\* dropped without sending).
C1_AtMostOneDelivery ==
    \A i \in Req :
        /\ Len(sent[i]) <= 1
        /\ Len(observed[i]) <= 1
        /\ chan[i].rx = "resolved" =>
              /\ Len(observed[i]) = 1
              /\ Delivered(i) # Canceled(i)
              /\ Delivered(i) => (chan[i].tx = "sent" /\ Len(sent[i]) = 1)
              /\ Canceled(i) => (chan[i].tx = "dropped" /\ sent[i] = <<>>)

\* Both terminal outcomes are observed side by side in one run.
C1_Witness ==
    \E i, j \in Req : Delivered(i) /\ Canceled(j) /\ chan[i].rx = "resolved"

\* C2: a consumer that observes a delivery observes exactly the response the
\* handler sent on the handle of the same request (result and reputation
\* changes), whatever was sent on the other requests' handles.
C2_ObservesOwnResponse ==
    \A i \in Req :
        Delivered(i) =>
            /\ Len(sent[i]) = 1
            /\ observed[i][1].resp = Some(sent[i][1].resp)
            /\ observed[i][1].resp[1].result = sent[i][1].resp.result
            /\ observed[i][1].resp[1].reputation_changes = sent[i][1].resp.reputation_changes

\* Two exchanges were in flight together and delivered different responses,
\* one of them Ok(b"pong") with no reputation change on a b"ping" request.
C2_Witness ==
    \E i, j \in Req :
        /\ Delivered(i) /\ Delivered(j)
        /\ reqs[i][1].payload = Ping
        /\ observed[i][1].resp[1] = [result |-> OkResult(Pong), reputation_changes |-> <<>>]
        /\ observed[j][1].resp[1].reputation_changes # <<>>
        /\ observed[j][1].resp[1].result = ErrResult

\* The reputation the consumer has applied to peer p: the changes of the
\* delivered responses it has processed, and nothing else.
RECURSIVE AppliedTo(_, _)
AppliedTo(p, n) ==
    IF n = 0 THEN 0
    ELSE AppliedTo(p, n - 1)
         + (IF applied[n] /\ reqs[n][1].peer = p /\ Delivered(n)
            THEN SumSeq(sent[n][1].resp.reputation_changes) ELSE 0)

\* C3: when the handle is dropped without a send, the consumer observes
\* "canceled", which is not a delivered response (in particular not a
\* delivered Err(())), and the reputation of every peer is the sum of the
\* changes carried by delivered responses only.
C3_DropMeansNoResponse ==
    /\ \A i \in Req :
          (chan[i].tx = "dropped" /\ observed[i] # <<>>) =>
              /\ Canceled(i)
              /\ observed[i][1].resp = None
              /\ \A r \in OutgoingResponse : observed[i][1] # oneshot_recv([oneshot_channel EXCEPT !.slot = Some(r)])
    /\ \A p \in Peers : reputation[p] = AppliedTo(p, NumRequests)

\* A dropped handle was observed and processed while another request of the
\* same peer delivered Err(()) with reputation changes.
C3_Witness ==
    \E i, j \in Req :
        /\ chan[i].tx = "dropped" /\ Canceled(i) /\ applied[i]
        /\ reqs[j] # None
        /\ reqs[j][1].peer = reqs[i][1].peer
        /\ Delivered(j) /\ applied[j]
        /\ observed[j][1].resp[1].result = ErrResult
        /\ reputation[reqs[i][1].peer] # 0

\* C4 as stated: whenever the handler sends, it sees the outcome of a
\* successful delivery, also when the receiver has gone away.
C4_SendAlwaysLooksDelivered ==
    \A i \in Req : \A k \in 1..Len(sent[i]) : sent[i][k].ret.tag = "Ok"

\* C4 amended: a handle is sent on at most once; a send returns Err carrying
\* the undelivered response exactly when the receiver had gone away before
\* the send, and such a response is never observed by the consumer; a send
\* returns Ok(()) exactly when the receiver was still there.
C4_SendReportsLostReceiver ==
    \A i \in Req :
        /\ Len(sent[i]) <= 1
        /\ \A k \in 1..Len(sent[i]) :
              /\ sent[i][k].rxGone <=> sent[i][k].ret.tag = "Err"
              /\ sent[i][k].ret.tag = "Err" =>
                    /\ sent[i][k].ret.val = Some(sent[i][k].resp)
                    /\ observed[i] = <<>>
                    /\ chan[i].slot = None
              /\ sent[i][k].ret.tag = "Ok" => sent[i][k].ret.val = None

\* The receiver went away and the handler sent afterwards.
C4_Witness ==
    \E i \in Req : chan[i].rx = "dropped" /\ Len(sent[i]) = 1 /\ sent[i][1].rxGone

(***************************************************************************)
(* Failure enumerations                                                    *)
(***************************************************************************)
\* An error value: its type, its variant and the value it wraps, if any.
ErrorValue(ty, variant, cause) == [ty |-> ty, variant |-> variant, cause |-> cause]

\* The transport's own error types, re-exported by this module.
MultiaddrError ==
    {ErrorValue("multiaddr::Error", v, None) :
        v \in {"DataLessThanLen", "InvalidMultiaddr", "InvalidProtocolString",
               "InvalidUvar", "UnknownProtocolId", "UnknownProtocolString"}}
OutboundFailure ==
    {ErrorValue("OutboundFailure", v, None) :
        v \in {"DialFailure", "Timeout", "ConnectionClosed", "UnsupportedProtocols"}}
InboundFailure ==
    {ErrorValue("InboundFailure", v, None) :
        v \in {"Timeout", "ConnectionClosed", "UnsupportedProtocols", "ResponseOmission"}}

\* enum ParseErr
ParseErr ==
    {ErrorValue("ParseErr", "MultiaddrParse", Some(e)) : e \in MultiaddrError}
    \cup {ErrorValue("ParseErr", "InvalidPeerId", None),
          ErrorValue("ParseErr", "PeerIdMissing", None)}

\* enum RequestFailure
RequestFailure ==
    {ErrorValue("RequestFailure", v, None) :
        v \in {"NotConnected", "UnknownProtocol", "Refused", "Obsolete"}}
    \cup {ErrorValue("RequestFailure", "Network", Some(e)) : e \in OutboundFailure}
NotConnected == ErrorValue("RequestFailure", "NotConnected", None)

\* enum ResponseFailure
ResponseFailure ==
    {ErrorValue("ResponseFailure", "Network", Some(e)) : e \in InboundFailure}

\* A conversion that classifies every decode error as a bad peer id.
ParseErr_from_reinterpreting(err) == ErrorValue("ParseErr", "InvalidPeerId", None)

\* impl From<multiaddr::Error> for ParseErr
ParseErr_from(err) == ErrorValue("ParseErr", "MultiaddrParse", Some(err))

\* impl std::error::Error for ParseErr: fn source
ParseErr_source(self) ==
    CASE self.variant = "MultiaddrParse" -> Some(self.cause[1])
      [] self.variant = "InvalidPeerId" -> None
      [] self.variant = "PeerIdMissing" -> None

\* impl fmt::Display for ParseErr; the decode error renders itself.
ParseErr_display(self) ==
    CASE self.variant = "MultiaddrParse" -> <<"multiaddr::Error", self.cause[1].variant>>
      [] self.variant = "InvalidPeerId" -> <<"Peer id at the end of the address is invalid">>
      [] self.variant = "PeerIdMissing" -> <<"Peer id is missing from the address">>

\* A derive that takes the single field of a tuple variant as the source.
Failure_source_inferring(self) == self.cause

\* derive_more::Error on RequestFailure and ResponseFailure: the only field of
\* either enum is marked #[error(ignore)], so no variant has a source.
Failure_source(self) == None

\* derive_more::Display: a unit variant renders its name, Network renders
\* "Problem on the network: {:?}" with the Debug form of the wrapped failure.
Failure_display(self) ==
    IF self.variant = "Network"
    THEN <<"Problem on the network: ", self.cause[1].variant>>
    ELSE <<self.variant>>

\* Error::source() and Display, by the type of the value.
source(self) ==
    IF self.ty = "ParseErr" THEN ParseErr_source(self) ELSE Failure_source(self)
display(self) ==
    IF self.ty = "ParseErr" THEN ParseErr_display(self) ELSE Failure_display(self)

InitErr ==
    /\ val = None
    /\ prev = None
    /\ srcRes = None
    /\ dispRes = None

\* A value of the taxonomy is produced; from is the decode error it was
\* converted from, if it came out of a conversion.
Produce(v, from) ==
    /\ val' = Some([v |-> v, from |-> from])
    /\ prev' = val
    /\ srcRes' = None
    /\ dispRes' = None

MakeRequestFailure(v) == v \in RequestFailure /\ Produce(v, None)
MakeResponseFailure(v) == v \in ResponseFailure /\ Produce(v, None)
\* parse_str_addr's own failures, which wrap nothing.
MakeParseErr(v) == v \in ParseErr /\ v.cause = None /\ Produce(v, None)
\* The ? operator on a multiaddr decode error.
ConvertDecodeError(e) == e \in MultiaddrError /\ Produce(ParseErr_from(e), Some(e))

CallSource ==
    /\ val # None
    /\ srcRes' = Some(source(val[1].v))
    /\ UNCHANGED <<val, prev, dispRes>>

CallDisplay ==
    /\ val # None
    /\ dispRes' = Some(display(val[1].v))
    /\ UNCHANGED <<val, prev, srcRes>>

ErrFrame == UNCHANGED <<exchangeVars, sendVars, addrVars>>

NextErr ==
    \/ \E v \in RequestFailure : MakeRequestFailure(v) /\ ErrFrame
    \/ \E v \in ResponseFailure : MakeResponseFailure(v) /\ ErrFrame
    \/ \E v \in ParseErr : MakeParseErr(v) /\ ErrFrame
    \/ \E e \in MultiaddrError : ConvertDecodeError(e) /\ ErrFrame
    \/ CallSource /\ ErrFrame
    \/ CallDisplay /\ ErrFrame

(***************************************************************************)
(* Connection policy                                                       *)
(***************************************************************************)
MaxDials == 2

\* enum IfDisconnected
IfDisconnected == {"TryConnect", "ImmediateError"}

\* A policy check that answers "connect" for every policy.
should_connect_always(self) == TRUE

\* A policy check with the two arms exchanged.
should_connect_swapped(self) ==
    CASE self = "TryConnect" -> FALSE
      [] self = "ImmediateError" -> TRUE

\* IfDisconnected::should_connect
should_connect(self) ==
    CASE self = "TryConnect" -> TRUE
      [] self = "ImmediateError" -> FALSE

InitSend ==
    /\ connected = {}
    /\ dials = [p \in Peers |-> 0]
    /\ lastSend = None
    /\ seen = [policy \in IfDisconnected |-> {}]

\* The transport reports a connection to p / the loss of it.
ConnectionEstablished(p) ==
    /\ p \notin connected
    /\ connected' = connected \cup {p}
    /\ UNCHANGED <<dials, lastSend, seen>>

ConnectionClosed(p) ==
    /\ p \in connected
    /\ connected' = connected \ {p}
    /\ UNCHANGED <<dials, lastSend, seen>>

\* A caller asks the policy directly.
CallShouldConnect(policy) ==
    /\ seen' = [seen EXCEPT ![policy] = @ \cup {should_connect(policy)}]
    /\ UNCHANGED <<connected, dials, lastSend>>

\* The sending path: a connected target is sent to; for a target without a
\* connection the policy is consulted once, and the path either starts a
\* connection attempt or fails with RequestFailure::NotConnected.
SendRequest(target, policy) ==
    IF target \in connected
    THEN /\ lastSend' = Some([target |-> target, policy |-> policy, wasConnected |-> TRUE,
                              outcome |-> "Sent", failure |-> None, dialsBefore |-> dials])
         /\ UNCHANGED <<connected, dials, seen>>
    ELSE LET connect == should_connect(policy) IN
         /\ seen' = [seen EXCEPT ![policy] = @ \cup {connect}]
         /\ IF connect
            THEN /\ dials[target] < MaxDials
                 /\ dials' = [dials EXCEPT ![target] = @ + 1]
                 /\ lastSend' = Some([target |-> target, policy |-> policy,
                                      wasConnected |-> FALSE, outcome |-> "Dialing",
                                      failure |-> None, dialsBefore |-> dials])
            ELSE /\ dials' = dials
                 /\ lastSend' = Some([target |-> target, policy |-> policy,
                                      wasConnected |-> FALSE, outcome |-> "Failed",
                                      failure |-> Some(NotConnected), dialsBefore |-> dials])
         /\ UNCHANGED connected

SendFrame == UNCHANGED <<exchangeVars, addrVars, errVars>>

NextSend ==
    \/ \E p \in Peers : ConnectionEstablished(p) /\ SendFrame
    \/ \E p \in Peers : ConnectionClosed(p) /\ SendFrame
    \/ \E policy \in IfDisconnected : CallShouldConnect(policy) /\ SendFrame
    \/ \E p \in Peers, policy \in IfDisconnected : SendRequest(p, policy) /\ SendFrame

(***************************************************************************)
(* Memory addresses                                                        *)
(***************************************************************************)
MaxSegs == 3
U64Bits == 64

\* u64 values as bit vectors, most significant bit first: 0, 1, 2^63 and 2^64-1.
U64Zero == [i \in 1..U64Bits |-> 0]
U64One == [i \in 1..U64Bits |-> IF i = U64Bits THEN 1 ELSE 0]
U64High == [i \in 1..U64Bits |-> IF i = 1 THEN 1 ELSE 0]
U64Max == [i \in 1..U64Bits |-> 1]
Ports == {U64Zero, U64One, U64High, U64Max}

\* multiaddr::Protocol segments: Memory(u64) and two segments of other families.
Protocol(proto, arg) == [proto |-> proto, arg |-> arg]
Segments ==
    {Protocol("Memory", p) : p \in Ports}
    \cup {Protocol("Ip4", <<127, 0, 0, 1>>), Protocol("Tcp", <<30333>>)}

\* An address builder that emits a Tcp segment for the port.
memory_addr_tcp(port) == <<Protocol("Tcp", port)>>

\* memory_addr: build_multiaddr!(Memory(port))
memory_addr(port) == <<Protocol("Memory", port)>>

\* matches!(protocol, Protocol::Memory(_))
matches_memory(protocol) == protocol.proto = "Memory"

\* Iterator::any over the segments, front to back, stopping at the first match.
RECURSIVE any_memory(_)
any_memory(segs) ==
    IF segs = <<>> THEN FALSE
    ELSE IF matches_memory(Head(segs)) THEN TRUE
    ELSE any_memory(Tail(segs))

\* A check that looks at the leading segment only.
is_memory_addr_leading(a) == a # <<>> /\ matches_memory(Head(a))

\* is_memory_addr
is_memory_addr(a) == any_memory(a)

InitAddr ==
    /\ addr = <<>>
    /\ origin = "empty"
    /\ isMem = None

\* memory_addr(port)
MemoryAddr(port) ==
    /\ addr' = memory_addr(port)
    /\ origin' = "memory_addr"
    /\ isMem' = None

\* random_memory_addr(): rand::random::<u64>() may return any u64.
RandomMemoryAddr ==
    \E port \in Ports :
        /\ addr' = memory_addr(port)
        /\ origin' = "random_memory_addr"
        /\ isMem' = None

\* Multiaddr::empty() and Multiaddr::push: any sequence of segments is an address.
EmptyAddr ==
    /\ addr' = <<>>
    /\ origin' = "empty"
    /\ isMem' = None

PushProtocol(seg) ==
    /\ Len(addr) < MaxSegs
    /\ addr' = Append(addr, seg)
    /\ origin' = "push"
    /\ isMem' = None

\* is_memory_addr(&addr)
IsMemoryAddr ==
    /\ isMem' = Some(is_memory_addr(addr))
    /\ UNCHANGED <<addr, origin>>

AddrFrame == UNCHANGED <<exchangeVars, sendVars, errVars>>

NextAddr ==
    \/ \E port \in Ports : MemoryAddr(port) /\ AddrFrame
    \/ RandomMemoryAddr /\ AddrFrame
    \/ EmptyAddr /\ AddrFrame
    \/ \E seg \in Segments : PushProtocol(seg) /\ AddrFrame
    \/ IsMemoryAddr /\ AddrFrame

(***************************************************************************)
(* Specifications                                                          *)
(***************************************************************************)
Init == InitExchange /\ InitSend /\ InitAddr /\ InitErr

SpecExchange == Init /\ [][NextExchange]_vars
SpecSend == Init /\ [][NextSend]_vars
SpecAddr == Init /\ [][NextAddr]_vars
SpecErr == Init /\ [][NextErr]_vars

(***************************************************************************)
(* Claims on the connection policy (checked under SpecSend)                *)
(***************************************************************************)
\* C5: a send to a target without a live connection under ImmediateError
\* fails with RequestFailure::NotConnected, and no connection attempt to any
\* peer was made by that send.
C5_ImmediateErrorFailsFast ==
    (/\ lastSend # None
     /\ ~lastSend[1].wasConnected
     /\ lastSend[1].policy = "ImmediateError") =>
        /\ lastSend[1].outcome = "Failed"
        /\ lastSend[1].failure = Some(NotConnected)
        /\ dials = lastSend[1].dialsBefore

\* An ImmediateError send to a disconnected target that had been dialled
\* before (under TryConnect) has failed.
C5_Witness ==
    /\ lastSend # None
    /\ lastSend[1].policy = "ImmediateError"
    /\ lastSend[1].target \notin connected
    /\ ~lastSend[1].wasConnected
    /\ lastSend[1].outcome = "Failed"
    /\ dials[lastSend[1].target] > 0

\* C6: IfDisconnected has exactly two values; every call of should_connect
\* returned TRUE on TryConnect and FALSE on ImmediateError, so each policy has
\* seen one result only; a send never carries a third policy.
C6_ShouldConnectTable ==
    /\ Cardinality(IfDisconnected) = 2
    /\ seen["TryConnect"] \subseteq {TRUE}
    /\ seen["ImmediateError"] \subseteq {FALSE}
    /\ \A policy \in IfDisconnected : Cardinality(seen[policy]) <= 1
    /\ lastSend # None => lastSend[1].policy \in {"TryConnect", "ImmediateError"}

\* should_connect has been called on both policies.
C6_Witness ==
    /\ seen["TryConnect"] = {TRUE}
    /\ seen["ImmediateError"] = {FALSE}
    /\ lastSend # None

(***************************************************************************)
(* Claims on memory addresses (checked under SpecAddr)                     *)
(***************************************************************************)
\* C7: an address built by memory_addr(p), for the sampled ports 0, 1, 2^63
\* and 2^64-1, or by random_memory_addr(), is a memory address.
C7_MemoryAddrIsMemory ==
    (origin \in {"memory_addr", "random_memory_addr"} /\ isMem # None) =>
        isMem = Some(TRUE)

\* is_memory_addr was called on memory_addr(2^64-1).
C7_Witness ==
    /\ origin = "memory_addr"
    /\ addr[1].arg = U64Max
    /\ isMem # None

\* C8: is_memory_addr(addr) is TRUE exactly when some segment of addr, at
\* whatever position and with whatever port, is a Memory segment; in
\* particular it is FALSE on the empty address.
C8_MemoryIffSomeSegment ==
    isMem # None =>
        /\ isMem[1] <=> (\E k \in 1..Len(addr) : addr[k].proto = "Memory")
        /\ addr = <<>> => isMem = Some(FALSE)

\* is_memory_addr answered TRUE on an address whose only Memory segment is the
\* last of several.
C8_Witness ==
    /\ isMem = Some(TRUE)
    /\ Len(addr) = MaxSegs
    /\ addr[Len(addr)].proto = "Memory"
    /\ \A k \in 1..(Len(addr) - 1) : addr[k].proto # "Memory"

(***************************************************************************)
(* Claims on the failure enumerations (checked under SpecErr)              *)
(***************************************************************************)
Taxonomy == RequestFailure \cup ResponseFailure
IsNetwork(v) == v \in Taxonomy /\ v.variant = "Network"

\* C9 as stated: the source() of a Network(cause) value is the wrapped cause.
C9_NetworkSourceIsCause ==
    (val # None /\ IsNetwork(val[1].v) /\ srcRes # None) => srcRes[1] = val[1].v.cause

\* C9 amended: a Network(cause) value keeps the cause as its field and shows
\* it in its message, but source() is None for every RequestFailure and
\* ResponseFailure value; two different values of the taxonomy differ in
\* their type or in their message.
C9_NoSourceButDistinct ==
    /\ (val # None /\ val[1].v \in Taxonomy) =>
          /\ srcRes # None => srcRes[1] = None
          /\ IsNetwork(val[1].v) =>
                /\ val[1].v.cause # None
                /\ dispRes # None =>
                      dispRes[1] = <<"Problem on the network: ", val[1].v.cause[1].variant>>
    /\ (/\ val # None /\ prev # None
        /\ val[1].v \in Taxonomy /\ prev[1].v \in Taxonomy
        /\ val[1].v # prev[1].v) =>
          \/ val[1].v.ty # prev[1].v.ty
          \/ display(val[1].v) # display(prev[1].v)

\* source() was called on RequestFailure::Network(Timeout), after a
\* ResponseFailure::Network(Timeout) had been produced.
C9_Witness ==
    /\ val # None /\ prev # None
    /\ val[1].v = ErrorValue("RequestFailure", "Network",
                             Some(ErrorValue("OutboundFailure", "Timeout", None)))
    /\ prev[1].v.ty = "ResponseFailure"
    /\ srcRes # None
    /\ dispRes # None

\* C10: the conversion of a decode error e yields ParseErr::MultiaddrParse(e),
\* never InvalidPeerId or PeerIdMissing, and its source() is e; the source()
\* of InvalidPeerId and of PeerIdMissing is None.
C10_DecodeErrorPreserved ==
    (val # None /\ val[1].v.ty = "ParseErr") =>
        /\ val[1].from # None =>
              /\ val[1].v.variant = "MultiaddrParse"
              /\ val[1].v.cause = val[1].from
              /\ srcRes # None => srcRes[1] = val[1].from
        /\ (val[1].v.variant \in {"InvalidPeerId", "PeerIdMissing"} /\ srcRes # None) =>
              srcRes[1] = None

\* source() was called on the conversion of a decode error, after an
\* InvalidPeerId had been produced.
C10_Witness ==
    /\ val # None /\ prev # None
    /\ val[1].from = Some(ErrorValue("multiaddr::Error", "InvalidUvar", None))
    /\ srcRes # None
    /\ prev[1].v.variant = "InvalidPeerId"

====
